---- MODULE Spec2Model ----
(***************************************************************************)
(* cuda_setup.py: locating the CUDA toolkit (locate_cuda), the two         *)
(* compiler dispatchers (_UnixCCompiler, _MSVCCompiler) and the build      *)
(* hook (CudaBuildExt.run).                                                *)
(*                                                                         *)
(* Text that the code inspects character by character (sys.platform, the   *)
(* nvcc flags, source file names) is a sequence of one-character strings.  *)
(* A filesystem path is the sequence of its components; an absolute path   *)
(* starts with the component "/".  The filesystem is the set of the       *)
(* normalised absolute paths that exist.                                   *)
(***************************************************************************)
EXTENDS Integers, Sequences, FiniteSets, TLC

VARIABLES
  platform,        \* sys.platform
  HALF_PRECISION,  \* module flag, line 18
  optimize,        \* interpreter started with -O: assert statements are skipped
  environ,         \* os.environ: the variables among CUDA_PATH, CUDAHOME, CUDA_HOME, PATH that are set
  fs,              \* the paths that exist
  pc,              \* "import", "loaded", "building", or the exception that ended the process
  CUDA,            \* module global, line 203
  BUILDEXT,        \* module global, line 205
  warnings,        \* what logging.warning was called with, in order
  new_compiler,    \* ccompiler.new_compiler: "original" or "wrapped"
  compiler,        \* the build command's compiler identifier
  driver,          \* class of the compiler object the factory returned
  compiler_so,     \* the driver's compiler_so field
  so0,             \* compiler_so as the driver was constructed with it
  last_compile,    \* the latest _UnixCCompiler._compile call and its outcome
  prev_compile,    \* the call before it
  msvc             \* the latest _MSVCCompiler.compile call and its outcome

vars == <<platform, HALF_PRECISION, optimize, environ, fs, pc, CUDA, BUILDEXT,
          warnings, new_compiler, compiler, driver, compiler_so, so0,
          last_compile, prev_compile, msvc>>

----------------------------------------------------------------------------
(* Bounds *)

MaxPathLen == 2      \* directories in PATH
MaxSources == 3      \* sources handed to one _MSVCCompiler.compile call

----------------------------------------------------------------------------
(* Text *)

\* s[i..] starts with sub
PrefixAt(s, sub, i) ==
  /\ i + Len(sub) - 1 <= Len(s)
  /\ \A j \in 1..Len(sub) : s[i + j - 1] = sub[j]

\* Python: s.startswith(sub)
StartsWith(s, sub) == PrefixAt(s, sub, 1)

\* Python: sub in s
Contains(s, sub) == \E i \in 1..(Len(s) + 1) : PrefixAt(s, sub, i)

\* greatest index of character c in s, 0 when absent (str.rfind, 1-based)
RFind(s, c) ==
  LET hits == {i \in 1..Len(s) : s[i] = c}
  IN  IF hits = {} THEN 0 ELSE CHOOSE i \in hits : \A j \in hits : j <= i

\* os.path.splitext(p)[1]: the text from the last dot of the last path
\* component on, unless that component has only dots before it
SplitExt(p) ==
  LET sepIndex == RFind(p, "/")
      dotIndex == RFind(p, ".")
  IN  IF dotIndex > sepIndex
           /\ \E k \in (sepIndex + 1)..(dotIndex - 1) : p[k] # "."
      THEN SubSeq(p, dotIndex, Len(p))
      ELSE <<>>

\* os.path.splitext(p)[0]
SplitBase(p) == SubSeq(p, 1, Len(p) - Len(SplitExt(p)))

CU_EXT == <<".","c","u">>

----------------------------------------------------------------------------
(* Paths *)

Cwd == <<"/", "w">>

IsAbs(p) == Len(p) > 0 /\ p[1] = "/"

\* os.path.join(a, b)
Join(a, b) == IF IsAbs(b) THEN b ELSE a \o b

RECURSIVE NormFrom(_, _, _)
\* os.path.normpath of an absolute path: p[i..] applied to the stack acc
NormFrom(p, i, acc) ==
  IF i > Len(p) THEN acc
  ELSE IF p[i] = "." THEN NormFrom(p, i + 1, acc)
  ELSE IF p[i] = ".."
       THEN NormFrom(p, i + 1,
                     IF Len(acc) > 1 THEN SubSeq(acc, 1, Len(acc) - 1) ELSE acc)
  ELSE NormFrom(p, i + 1, Append(acc, p[i]))

\* os.path.abspath(p)
Abspath(p) ==
  LET full == IF IsAbs(p) THEN p ELSE Cwd \o p
  IN  NormFrom(full, 2, <<"/">>)

\* os.path.dirname(p)
Dirname(p) ==
  IF Len(p) = 0 THEN <<>>
  ELSE IF Len(p) = 1 THEN (IF IsAbs(p) THEN p ELSE <<>>)
  ELSE SubSeq(p, 1, Len(p) - 1)

\* os.path.exists(p) on filesystem f; the empty string names nothing
Exists(p, f) == Len(p) > 0 /\ Abspath(p) \in f

----------------------------------------------------------------------------
(* locate_cuda *)

LINUX  == <<"l","i","n","u","x">>
WIN32  == <<"w","i","n","3","2">>
CYGWIN == <<"c","y","g","w","i","n">>

\* line 42: sys.platform.startswith("win")
IsWinPrefix(plat) == StartsWith(plat, <<"w","i","n">>)

\* lines 82, 188: sys.platform == "win32"
IsWin32Mutant(plat) == Contains(plat, <<"w","i","n">>)
IsWin32(plat) == plat = WIN32

\* lines 41-43
nvcc_bin(plat) == IF IsWinPrefix(plat) THEN "nvcc.exe" ELSE "nvcc"

\* line 47: the environment variables, in the order they are tried
EnvNamesMutant == <<"CUDA_HOME", "CUDAHOME", "CUDA_PATH">>
EnvNames == <<"CUDA_PATH", "CUDAHOME", "CUDA_HOME">>

\* find_in_path's result when nothing is found (abspath never returns '')
NoPath == <<>>

RECURSIVE FindFrom(_, _, _, _)
\* lines 24-28: the loop of find_in_path from directory i on
FindFromMutant(name, path, f, i) ==
  IF i > Len(path) THEN NoPath
  ELSE LET rest == FindFrom(name, path, f, i + 1)
           binpath == Join(path[i], <<name>>)
       IN  IF rest # NoPath THEN rest
           ELSE IF Exists(binpath, f) THEN Abspath(binpath) ELSE NoPath
FindFrom(name, path, f, i) ==
  IF i > Len(path) THEN NoPath
  ELSE LET binpath == Join(path[i], <<name>>)
       IN  IF Exists(binpath, f) THEN Abspath(binpath)
           ELSE FindFrom(name, path, f, i + 1)

\* lines 20-28; path is os.environ['PATH'] already split on os.pathsep
find_in_path(name, path, f) == FindFrom(name, path, f, 1)

\* lines 68-78
BasePostArgs ==
  << <<"-","a","r","c","h","=","s","m","_","5","2">>,
     <<"-","g","e","n","c","o","d","e","=","a","r","c","h","=","c","o","m","p","u","t","e","_","5","2",",","c","o","d","e","=","s","m","_","5","2">>,
     <<"-","g","e","n","c","o","d","e","=","a","r","c","h","=","c","o","m","p","u","t","e","_","6","0",",","c","o","d","e","=","s","m","_","6","0">>,
     <<"-","g","e","n","c","o","d","e","=","a","r","c","h","=","c","o","m","p","u","t","e","_","6","1",",","c","o","d","e","=","s","m","_","6","1">>,
     <<"-","g","e","n","c","o","d","e","=","a","r","c","h","=","c","o","m","p","u","t","e","_","7","0",",","c","o","d","e","=","s","m","_","7","0">>,
     <<"-","g","e","n","c","o","d","e","=","a","r","c","h","=","c","o","m","p","u","t","e","_","7","5",",","c","o","d","e","=","s","m","_","7","5">>,
     <<"-","g","e","n","c","o","d","e","=","a","r","c","h","=","c","o","m","p","u","t","e","_","8","0",",","c","o","d","e","=","s","m","_","8","0">>,
     <<"-","g","e","n","c","o","d","e","=","a","r","c","h","=","c","o","m","p","u","t","e","_","8","6",",","c","o","d","e","=","s","m","_","8","6">>,
     <<"-","g","e","n","c","o","d","e","=","a","r","c","h","=","c","o","m","p","u","t","e","_","8","6",",","c","o","d","e","=","c","o","m","p","u","t","e","_","8","6">>,
     <<"-","-","p","t","x","a","s","-","o","p","t","i","o","n","s","=","-","v">>,
     <<"-","O","2">> >>

\* line 80: "52" not in flag
No52(flag) == ~Contains(flag, <<"5","2">>)

\* lines 79-80
ArchFlagsMutant(half) ==
  IF ~half THEN SelectSeq(BasePostArgs, No52) ELSE BasePostArgs
ArchFlags(half) ==
  IF half THEN SelectSeq(BasePostArgs, No52) ELSE BasePostArgs

\* line 84
WinArgs ==
  << <<"-","X","c","o","m","p","i","l","e","r">>,
     <<"/","M","D">>,
     <<"-","s","t","d","=","c","+","+","1","4">>,
     <<"-","X","c","o","m","p","i","l","e","r">>,
     <<"/","o","p","e","n","m","p">> >>

\* line 86
WinHalfArgs ==
  << <<"-","X","c","o","m","p","i","l","e","r">>,
     <<"/","D"," ","H","A","L","F","_","P","R","E","C","I","S","I","O","N">> >>

\* lines 88-89
UnixArgs ==
  << <<"-","c">>,
     <<"-","-","c","o","m","p","i","l","e","r","-","o","p","t","i","o","n","s">>,
     <<"'","-","f","P","I","C","'">>,
     <<"-","-","c","o","m","p","i","l","e","r","-","o","p","t","i","o","n","s">>,
     <<"'","-","s","t","d","=","c","+","+","1","4","'">> >>

\* line 91
UnixHalfArgs ==
  << <<"-","-","c","o","m","p","i","l","e","r","-","o","p","t","i","o","n","s">>,
     <<"'","-","D"," ","H","A","L","F","_","P","R","E","C","I","S","I","O","N","'">> >>

\* lines 68-91: post_args as locate_cuda assembles it
PostArgs(plat, half) ==
  IF IsWin32(plat)
  THEN ArchFlags(half) \o WinArgs \o (IF half THEN WinHalfArgs ELSE <<>>)
  ELSE ArchFlags(half) \o UnixArgs \o (IF half THEN UnixHalfArgs ELSE <<>>)

\* lines 64-67, 92: the keys of cudaconfig in iteration order
ConfigKeysMutant == <<"home", "nvcc", "lib64">>
ConfigKeys == <<"home", "nvcc", "include", "lib64">>

\* locate_cuda returning None
None ==
  [found |-> FALSE, home |-> <<>>, nvcc |-> <<>>, include |-> <<>>,
   lib64 |-> <<>>, post_args |-> <<>>]

\* lines 31-98: the returned value, the warnings logged on the way and the
\* exception raised, if any (line 56 reads os.environ['PATH'] unguarded)
locate_cuda(plat, half, env, f) ==
  LET bin == nvcc_bin(plat)
      present == {i \in 1..Len(EnvNames) : EnvNames[i] \in DOMAIN env}
      found == present # {}
      first == CHOOSE i \in present : \A j \in present : i <= j
      searched == find_in_path(bin, env.PATH, f)
      home == IF found THEN env[EnvNames[first]]
              ELSE Dirname(Dirname(searched))
      nvcc == IF found THEN Join(Join(home, <<"bin">>), <<bin>>)
              ELSE searched
      cudaconfig ==
        [home    |-> home,
         nvcc    |-> nvcc,
         include |-> Join(home, <<"include">>),
         lib64   |-> IF IsWin32(plat) THEN Join(Join(home, <<"lib">>), <<"x64">>)
                     ELSE Join(home, <<"lib64">>)]
      missing == {i \in 1..Len(ConfigKeys) : ~Exists(cudaconfig[ConfigKeys[i]], f)}
      k == ConfigKeys[CHOOSE i \in missing : \A j \in missing : i <= j]
  IN  IF ~found /\ "PATH" \notin DOMAIN env
      THEN [cfg |-> None, warnings |-> <<>>, raised |-> "KeyError"]
      ELSE IF ~found /\ searched = NoPath
      THEN [cfg |-> None,
            warnings |-> <<[key |-> "PATH", val |-> <<>>]>>,
            raised |-> "none"]
      ELSE IF missing # {}
      THEN [cfg |-> None,
            warnings |-> <<[key |-> k, val |-> cudaconfig[k]]>>,
            raised |-> "none"]
      ELSE [cfg |-> [found |-> TRUE, home |-> home, nvcc |-> nvcc,
                     include |-> cudaconfig.include, lib64 |-> cudaconfig.lib64,
                     post_args |-> PostArgs(plat, half)],
            warnings |-> <<>>,
            raised |-> "none"]

----------------------------------------------------------------------------
(* The environments explored *)

Platforms == {LINUX, WIN32, CYGWIN}

\* two candidate toolkit roots
C1 == <<"/", "c1">>
C2 == <<"/", "c2">>

\* what an installation under root r may hold, for either platform
Leaves(r) ==
  { r \o <<"bin", "nvcc">>, r \o <<"bin", "nvcc.exe">>, r \o <<"include">>,
    r \o <<"lib64">>, r \o <<"lib", "x64">> }

\* a filesystem holds every ancestor of what it holds, and the working directory
Closure(S) ==
  UNION { {SubSeq(p, 1, n) : n \in 1..Len(p)} : p \in S \cup {Cwd} }

\* C1 holds any part of an installation; C2 none, a complete one, or one
\* without its include directory
C2Layouts ==
  { {}, Leaves(C2), Leaves(C2) \ {C2 \o <<"include">>} }

Filesystems == {Closure(s1 \cup s2) : s1 \in SUBSET Leaves(C1), s2 \in C2Layouts}

\* directories PATH may name: the empty entry (the working directory),
\* an absolute one, and a relative one that abspath rewrites to /c1/bin
PathDirs == { <<>>, C2 \o <<"bin">>, <<"..", "c1", "bin">> }

PathValues == UNION {[1..n -> PathDirs] : n \in 1..MaxPathLen}

EnvVarNames == {"CUDA_PATH", "CUDAHOME", "CUDA_HOME"}

\* os.environ with the toolkit variables S set to roots and PATH one of paths
Environs(S, paths) ==
  { [n \in S \cup {"PATH"} |-> IF n = "PATH" THEN pv ELSE r[n]] :
      r \in [S -> {C1, C2}], pv \in paths }

\* the environment with none of the four variables
NoEnviron == [n \in {} |-> <<>>]

\* every choice of toolkit variables with a one-directory PATH, and no
\* toolkit variable with every PATH and with none
LocateEnvirons ==
  Environs({}, PathValues) \cup {NoEnviron}
    \cup UNION { Environs(S, {pv \in PathValues : Len(pv) = 1}) :
                   S \in (SUBSET EnvVarNames) \ {{}} }

\* no _compile call yet
NoCompile ==
  [src |-> <<>>, given |-> <<>>, exe |-> <<>>, postargs |-> <<>>,
   outcome |-> "none"]

\* no compile call yet
NoMsvc ==
  [sources |-> <<>>, parent_fails |-> FALSE, fail_at |-> 0, parent |-> <<>>,
   spawned |-> <<>>, objects |-> <<>>, outcome |-> "none"]

\* the process before cuda_setup is imported
Fresh ==
  /\ pc = "import"
  /\ CUDA = None
  /\ BUILDEXT = "unset"
  /\ warnings = <<>>
  /\ new_compiler = "original"
  /\ driver = "none"
  /\ compiler_so = <<>>
  /\ so0 = <<>>
  /\ last_compile = NoCompile
  /\ prev_compile = NoCompile
  /\ msvc = NoMsvc

InitLocate ==
  /\ platform \in Platforms
  /\ HALF_PRECISION \in BOOLEAN
  /\ optimize = FALSE
  /\ environ \in LocateEnvirons
  /\ fs \in Filesystems
  /\ compiler = "default"
  /\ Fresh

----------------------------------------------------------------------------
(* Module load, lines 203-205 *)

ModuleLoad ==
  /\ pc = "import"
  /\ LET r == locate_cuda(platform, HALF_PRECISION, environ, fs)
     IN  /\ CUDA' = r.cfg
         /\ warnings' = warnings \o r.warnings
         /\ IF r.raised # "none"
            THEN /\ pc' = r.raised
                 /\ BUILDEXT' = BUILDEXT
            ELSE IF ~r.cfg.found /\ ~optimize
            THEN /\ pc' = "AssertionError"
                 /\ BUILDEXT' = BUILDEXT
            ELSE /\ pc' = "loaded"
                 /\ BUILDEXT' = IF r.cfg.found THEN "CudaBuildExt"
                                ELSE "setuptools_build_ext"
  /\ UNCHANGED <<platform, HALF_PRECISION, optimize, environ, fs, new_compiler,
                 compiler, driver, compiler_so, so0, last_compile,
                 prev_compile, msvc>>

NextLocate == ModuleLoad

SpecLocate == InitLocate /\ [][NextLocate]_vars

----------------------------------------------------------------------------
(* Properties of the locator, checked under SpecLocate *)

Loaded == pc # "import"

\* the toolkit variables that are set
SetVars == DOMAIN environ \ {"PATH"}

\* the filesystem contract of an installation rooted at r: <r>/bin/nvcc[.exe],
\* <r>/include and <r>/lib64 (<r>/lib/x64 on Windows)
BinaryName == IF platform = WIN32 THEN "nvcc.exe" ELSE "nvcc"
LibraryDir(r) ==
  IF platform = WIN32 THEN r \o <<"lib", "x64">> ELSE r \o <<"lib64">>
ValidInstall(r) ==
  /\ Exists(r, fs)
  /\ Exists(r \o <<"bin", BinaryName>>, fs)
  /\ Exists(r \o <<"include">>, fs)
  /\ Exists(LibraryDir(r), fs)

\* C2: a returned config is never partially valid: its home, nvcc, include
\* and lib64 paths all exist, include and lib64 being the root's include and
\* platform library directories; so a root missing any one of them yields
\* Not Found, however the root was chosen and on either platform profile.
C2_NoPartialConfig ==
  (Loaded /\ CUDA.found) =>
     /\ Exists(CUDA.home, fs)
     /\ Exists(CUDA.nvcc, fs)
     /\ Exists(CUDA.include, fs)
     /\ Exists(CUDA.lib64, fs)
     /\ CUDA.include = CUDA.home \o <<"include">>
     /\ CUDA.lib64 = LibraryDir(CUDA.home)

\* only the include directory of the chosen root is missing: Not Found
C2_Witness ==
  /\ Loaded
  /\ "CUDA_PATH" \in SetVars
  /\ LET r == environ["CUDA_PATH"]
     IN  /\ Exists(r, fs)
         /\ Exists(r \o <<"bin", BinaryName>>, fs)
         /\ Exists(LibraryDir(r), fs)
         /\ ~Exists(r \o <<"include">>, fs)
  /\ ~CUDA.found
  /\ platform = WIN32

\* the outcome when the root is taken from a toolkit variable with value r
RootedAt(r) ==
  /\ CUDA.found <=> ValidInstall(r)
  /\ CUDA.found => (CUDA.home = r /\ CUDA.nvcc = r \o <<"bin", BinaryName>>)
  /\ \A i \in 1..Len(warnings) : warnings[i].key # "PATH"

\* the binaries the PATH directories hold, as absolute paths
PathBinaries ==
  { Abspath(environ.PATH[i] \o <<BinaryName>>) : i \in 1..Len(environ.PATH) }

PathHits ==
  { i \in 1..Len(environ.PATH) : Exists(environ.PATH[i] \o <<BinaryName>>, fs) }

FirstHit == CHOOSE i \in PathHits : \A j \in PathHits : i <= j

\* the directory of the first hit, as an absolute path
FirstHitDir == Abspath(environ.PATH[FirstHit])

Flags == {CUDA.post_args[i] : i \in 1..Len(CUDA.post_args)}

Sm52Flags ==
  { <<"-","a","r","c","h","=","s","m","_","5","2">>,
    <<"-","g","e","n","c","o","d","e","=","a","r","c","h","=","c","o","m","p","u","t","e","_","5","2",",","c","o","d","e","=","s","m","_","5","2">> }

Mentions(text) == {f \in Flags : Contains(f, text)}

\* C5 as claimed: half-precision disabled: no flag references "52";
\* enabled: the sm_52/compute_52 flags are present.
C5_AsClaimed ==
  (Loaded /\ CUDA.found) =>
    IF HALF_PRECISION THEN Sm52Flags \subseteq Flags
    ELSE Mentions(<<"5","2">>) = {}

\* C5 amended: half-precision enabled: no flag references "52"; disabled:
\* the sm_52/compute_52 flags are present; on every platform.
C5_Half52 ==
  (Loaded /\ CUDA.found) =>
    IF HALF_PRECISION THEN Mentions(<<"5","2">>) = {}
    ELSE Sm52Flags \subseteq Flags

C5_Witness ==
  /\ Loaded
  /\ CUDA.found
  /\ HALF_PRECISION
  /\ platform = WIN32
  /\ Len(CUDA.post_args) > 0

\* C10: the platform flag sets exclude each other: off Windows the flags hold
\* a C++14 flag and a position-independent-code flag and nothing mentioning
\* /MD; on Windows they hold /MD and the OpenMP flag and nothing mentioning
\* -fPIC; for both values of HALF_PRECISION.
C10_PlatformFlags ==
  (Loaded /\ CUDA.found) =>
    IF platform = WIN32
    THEN /\ <<"/","M","D">> \in Flags
         /\ <<"/","o","p","e","n","m","p">> \in Flags
         /\ Mentions(<<"-","f","P","I","C">>) = {}
    ELSE /\ Mentions(<<"-","s","t","d","=","c","+","+","1","4">>) # {}
         /\ Mentions(<<"-","f","P","I","C">>) # {}
         /\ Mentions(<<"/","M","D">>) = {}

C10_Witness ==
  /\ Loaded
  /\ CUDA.found
  /\ platform = CYGWIN
  /\ HALF_PRECISION
  /\ Len(CUDA.post_args) > 0

----------------------------------------------------------------------------
(* CudaBuildExt.run and the compiler factory *)

\* distutils.ccompiler.new_compiler(compiler=id): the class it instantiates.
\* No identifier means the platform default; an identifier it does not know
\* ends in DistutilsPlatformError.
OrigNewCompiler(id, plat) ==
  IF id = "default"
  THEN (IF IsWin32(plat) THEN "MSVCCompiler" ELSE "UnixCCompiler")
  ELSE IF id = "unix" THEN "UnixCCompiler"
  ELSE "DistutilsPlatformError"

\* lines 188-193: the class the wrapper substitutes
DispatcherFor(plat) ==
  IF ~IsWin32(plat) THEN "_UnixCCompiler" ELSE "_MSVCCompiler"

\* lines 184-193: _wrap_new_compiler
WrappedNewCompiler(id, plat) ==
  LET r == OrigNewCompiler(id, plat)
  IN  IF r = "DistutilsPlatformError" THEN DispatcherFor(plat) ELSE r

\* lines 181-200: the hook, up to the point where the standard run starts
Run ==
  /\ pc = "loaded"
  /\ IF CUDA.found
     THEN /\ new_compiler' = "wrapped"
          /\ compiler' = "nvidia"
     ELSE /\ new_compiler' = new_compiler
          /\ compiler' = compiler
  /\ pc' = "building"
  /\ UNCHANGED <<platform, HALF_PRECISION, optimize, environ, fs, CUDA, BUILDEXT,
                 warnings, driver, compiler_so, so0, last_compile,
                 prev_compile, msvc>>

\* compiler_so of a Unix driver as the standard build configures it
NativeCompilerSo ==
  { << <<"cc">> >>, << <<"/", "usr", "bin", "gcc">>, <<"-pthread">> >> }

IsUnixClass(c) == c \in {"UnixCCompiler", "_UnixCCompiler"}

\* the standard run (line 200) obtains its compiler object from the factory
NewCompiler(native) ==
  /\ pc = "building"
  /\ driver = "none"
  /\ LET r == IF new_compiler = "wrapped"
              THEN WrappedNewCompiler(compiler, platform)
              ELSE OrigNewCompiler(compiler, platform)
     IN  IF r = "DistutilsPlatformError"
         THEN /\ pc' = "DistutilsPlatformError"
              /\ UNCHANGED <<driver, compiler_so, so0>>
         ELSE /\ pc' = pc
              /\ driver' = r
              /\ compiler_so' = IF IsUnixClass(r) THEN native ELSE <<>>
              /\ so0' = compiler_so'
  /\ UNCHANGED <<platform, HALF_PRECISION, optimize, environ, fs, CUDA, BUILDEXT,
                 warnings, new_compiler, compiler, last_compile, prev_compile,
                 msvc>>

----------------------------------------------------------------------------
(* _UnixCCompiler._compile *)

\* lines 109, 162: os.path.splitext(src)[1] == '.cu'
IsCudaSource(src) == SplitExt(src) = CU_EXT

\* line 119: set_executable('compiler_so', nvcc_path) stores the one-word
\* command line
SetExecutable(nvcc_path) == <<nvcc_path>>

\* lines 117, 122: the extra arguments a .cu file is compiled with
CuPostArgsMutant(extra_postargs) == CUDA.post_args \o extra_postargs
CuPostArgs(extra_postargs) == CUDA.post_args

\* lines 114, 123-124: compiler_so when the .cu branch is left, having saved
\* `saved` on entry and holding `current`, by return or by exception
LeaveCuBranchMutant(saved, current, raised) ==
  IF raised THEN current ELSE saved
LeaveCuBranch(saved, current, raised) == saved

\* lines 107-124. The parent's _compile runs self.compiler_so on the source
\* with the extra arguments it is given and returns or raises CompileError.
UnixCompile(src, extra_postargs, fails) ==
  /\ pc = "building"
  /\ driver = "_UnixCCompiler"
  /\ LET outcome == IF fails THEN "CompileError" ELSE "returned"
         swapped == SetExecutable(CUDA.nvcc)
     IN  IF ~IsCudaSource(src)
         THEN /\ last_compile' =
                   [src |-> src, given |-> extra_postargs, exe |-> compiler_so,
                    postargs |-> extra_postargs, outcome |-> outcome]
              /\ compiler_so' = compiler_so
         ELSE /\ last_compile' =
                   [src |-> src, given |-> extra_postargs, exe |-> swapped,
                    postargs |-> CuPostArgs(extra_postargs), outcome |-> outcome]
              /\ compiler_so' = LeaveCuBranch(compiler_so, swapped, fails)
  /\ prev_compile' = last_compile
  /\ UNCHANGED <<platform, HALF_PRECISION, optimize, environ, fs, pc, CUDA,
                 BUILDEXT, warnings, new_compiler, compiler, driver, so0, msvc>>

----------------------------------------------------------------------------
(* _MSVCCompiler.compile and _compile_cu *)

\* the object file _setup_compile names for a source (lines 137-139)
ObjectName(src) == SplitBase(src) \o <<".","o","b","j">>

ObjectFilenames(sources) == [i \in 1..Len(sources) |-> ObjectName(sources[i])]

\* lines 159-165
CuSources(sources) == SelectSeq(sources, IsCudaSource)
NotCudaSource(src) == ~IsCudaSource(src)
OtherSources(sources) == SelectSeq(sources, NotCudaSource)

\* lines 150-153: what follows a spawn
AfterSpawnMutant(failed) == "next"
AfterSpawn(failed) == IF failed THEN "raise" ELSE "next"

RECURSIVE CompileCuFrom(_, _, _, _, _)
\* lines 145-155: the loop from object i on; spawned is the list of the nvcc
\* command lines run so far, fail_at the number of the spawn that fails
CompileCuFrom(objects, build, i, spawned, fail_at) ==
  IF i > Len(objects)
  THEN [raised |-> FALSE, objects |-> objects, spawned |-> spawned]
  ELSE IF objects[i] \notin DOMAIN build
  THEN CompileCuFrom(objects, build, i + 1, spawned, fail_at)
  ELSE LET cmd == [exe |-> CUDA.nvcc, src |-> build[objects[i]],
                   obj |-> objects[i], post_args |-> CUDA.post_args]
           now == Append(spawned, cmd)
       IN  IF AfterSpawn(Len(now) = fail_at) = "raise"
           THEN [raised |-> TRUE, objects |-> <<>>, spawned |-> now]
           ELSE CompileCuFrom(objects, build, i + 1, now, fail_at)

\* lines 133-155
compile_cu(sources, fail_at) ==
  LET objects == ObjectFilenames(sources)
      build == [o \in {objects[i] : i \in 1..Len(objects)} |->
                  sources[CHOOSE i \in 1..Len(objects) : objects[i] = o]]
  IN  CompileCuFrom(objects, build, 1, <<>>, fail_at)

\* line 175
ReturnedObjectsMutant(other_objects, cu_objects) == cu_objects \o other_objects
ReturnedObjects(other_objects, cu_objects) == other_objects \o cu_objects

\* lines 157-175. The parent's compile takes the other sources and returns
\* their objects or raises CompileError. A call reads nothing that an earlier
\* call wrote, so a build makes one.
MSVCCompile(sources, parent_fails, fail_at) ==
  /\ pc = "building"
  /\ driver = "_MSVCCompiler"
  /\ msvc.outcome = "none"
  /\ LET cu_sources == CuSources(sources)
         other_sources == OtherSources(sources)
         cu == compile_cu(cu_sources, fail_at)
     IN  IF parent_fails
         THEN msvc' = [sources |-> sources, parent_fails |-> parent_fails,
                       fail_at |-> fail_at, parent |-> other_sources,
                       spawned |-> <<>>, objects |-> <<>>,
                       outcome |-> "CompileError"]
         ELSE IF cu.raised
         THEN msvc' = [sources |-> sources, parent_fails |-> parent_fails,
                       fail_at |-> fail_at, parent |-> other_sources,
                       spawned |-> cu.spawned, objects |-> <<>>,
                       outcome |-> "CompileError"]
         ELSE msvc' = [sources |-> sources, parent_fails |-> parent_fails,
                       fail_at |-> fail_at, parent |-> other_sources,
                       spawned |-> cu.spawned,
                       objects |-> ReturnedObjects(ObjectFilenames(other_sources),
                                                   cu.objects),
                       outcome |-> "returned"]
  /\ UNCHANGED <<platform, HALF_PRECISION, optimize, environ, fs, pc, CUDA,
                 BUILDEXT, warnings, new_compiler, compiler, driver,
                 compiler_so, so0, last_compile, prev_compile>>

----------------------------------------------------------------------------
(* The build *)

\* source file names
SrcNames ==
  { <<"a",".","c">>, <<"k",".","c","u">>, <<"m",".","c","u">>,
    <<"d",".","c","u","/","b",".","c","p","p">> }

\* extra_postargs a caller may pass
CallerArgs == { <<>>, << <<"-","O","3">> >> }

SourceLists == UNION {[1..n -> SrcNames] : n \in 0..MaxSources}

\* CUDA_HOME set to either root or no toolkit variable at all, over a
\* complete installation at C1 or an empty disk
BuildEnvirons ==
  Environs({"CUDA_HOME"}, {<<C2 \o <<"bin">>>>}) \cup Environs({}, {<<C2 \o <<"bin">>>>})

Init ==
  /\ platform \in Platforms
  /\ HALF_PRECISION \in BOOLEAN
  /\ optimize \in BOOLEAN
  /\ environ \in BuildEnvirons
  /\ fs \in {Closure(Leaves(C1)), Closure({})}
  /\ compiler \in {"default", "unix", "bogus"}
  /\ Fresh

Next ==
  \/ ModuleLoad
  \/ Run
  \/ \E native \in NativeCompilerSo : NewCompiler(native)
  \/ \E src \in SrcNames, extra_postargs \in CallerArgs, fails \in BOOLEAN :
       UnixCompile(src, extra_postargs, fails)
  \/ \E sources \in SourceLists, parent_fails \in BOOLEAN, fail_at \in 0..MaxSources :
       MSVCCompile(sources, parent_fails, fail_at)

Spec == Init /\ [][Next]_vars

----------------------------------------------------------------------------
(* Properties of the dispatchers and the hook, checked under Spec *)

Compiled(call) == call.outcome # "none"

\* C1: on a _UnixCCompiler driver compiler_so equals, after every sequence
\* of _compile calls (.cu or not, returning or raising), the value the driver
\* was constructed with, and so every call for a source that is not .cu
\* runs the native executable, never nvcc.
C1_CompilerSoRestored ==
  driver = "_UnixCCompiler" =>
    /\ compiler_so = so0
    /\ \A call \in {last_compile, prev_compile} :
         (Compiled(call) /\ ~IsCudaSource(call.src)) =>
            (call.exe = so0 /\ call.exe # <<CUDA.nvcc>>)

\* a .cu call raised and the next call, for another kind of source, ran the
\* native executable
C1_Witness ==
  /\ driver = "_UnixCCompiler"
  /\ prev_compile.outcome = "CompileError"
  /\ IsCudaSource(prev_compile.src)
  /\ Compiled(last_compile)
  /\ ~IsCudaSource(last_compile.src)
  /\ last_compile.exe = so0

\* C9: _compile routes by the extension alone: a .cu source runs nvcc with
\* the toolkit's post_args, the caller's extra arguments dropped; any other
\* source runs the native executable with the caller's arguments.
C9_RoutingByExtension ==
  \A call \in {last_compile, prev_compile} :
    Compiled(call) =>
      IF SplitExt(call.src) = <<".","c","u">>
      THEN call.exe = <<CUDA.nvcc>> /\ call.postargs = CUDA.post_args
      ELSE call.exe = so0 /\ call.postargs = call.given

\* a .cu source compiled with caller arguments that were dropped
C9_Witness ==
  /\ Compiled(last_compile)
  /\ IsCudaSource(last_compile.src)
  /\ last_compile.given # <<>>
  /\ last_compile.postargs # last_compile.given
  /\ Compiled(prev_compile)
  /\ ~IsCudaSource(prev_compile.src)

\* sources of the call that end in .cu, and the others, in call order
CuOf(sources) ==
  SelectSeq(sources, LAMBDA x : SplitExt(x) = <<".","c","u">>)
OthersOf(sources) ==
  SelectSeq(sources, LAMBDA x : SplitExt(x) # <<".","c","u">>)

SpawnedSources == [i \in 1..Len(msvc.spawned) |-> msvc.spawned[i].src]
SpawnedObjects == [i \in 1..Len(msvc.spawned) |-> msvc.spawned[i].obj]

\* C6: when the nvcc spawn for the k-th .cu source fails, compile raises
\* CompileError and returns no object list; the .cu sources up to the k-th
\* were each spawned once, in order, and none after it.
C6_SpawnFailureIsCompileError ==
  (/\ Compiled(msvc)
   /\ ~msvc.parent_fails
   /\ msvc.fail_at \in 1..Len(CuOf(msvc.sources))) =>
     /\ msvc.outcome = "CompileError"
     /\ msvc.objects = <<>>
     /\ SpawnedSources = SubSeq(CuOf(msvc.sources), 1, msvc.fail_at)

\* the first of two .cu sources fails
C6_Witness ==
  /\ Compiled(msvc)
  /\ ~msvc.parent_fails
  /\ Len(CuOf(msvc.sources)) >= 2
  /\ msvc.fail_at = 1
  /\ msvc.outcome = "CompileError"

\* C7: when nothing fails, compile returns as many objects as it was given
\* sources: the objects of the other sources, which the parent compiled,
\* followed by those of the .cu sources, each made by one nvcc spawn.
C7_MixedSources ==
  (Compiled(msvc) /\ msvc.outcome = "returned") =>
     /\ Len(msvc.objects) = Len(msvc.sources)
     /\ msvc.parent = OthersOf(msvc.sources)
     /\ SpawnedSources = CuOf(msvc.sources)
     /\ msvc.objects
          = [i \in 1..Len(msvc.parent) |-> ObjectName(msvc.parent[i])]
              \o SpawnedObjects
     /\ \A i \in 1..Len(msvc.spawned) :
          msvc.spawned[i].obj = ObjectName(msvc.spawned[i].src)

\* a list that interleaves the two kinds of source
C7_Witness ==
  /\ Compiled(msvc)
  /\ msvc.outcome = "returned"
  /\ Len(msvc.sources) = 3
  /\ IsCudaSource(msvc.sources[1])
  /\ ~IsCudaSource(msvc.sources[2])
  /\ IsCudaSource(msvc.sources[3])

\* C8 as claimed: with a toolkit the hook wraps the factory and sets the
\* identifier to the sentinel, and the factory then yields the platform's
\* dispatcher; without one, Not Found is recoverable: the module loads, and
\* the hook leaves the factory and the identifier alone.
C8_HookGatedByToolkit ==
  /\ (pc = "building" /\ CUDA.found) =>
        /\ new_compiler = "wrapped"
        /\ compiler = "nvidia"
        /\ driver \in {"none", IF platform = WIN32 THEN "_MSVCCompiler"
                                ELSE "_UnixCCompiler"}
  /\ (Loaded /\ ~CUDA.found) =>
        /\ pc # "AssertionError"
        /\ new_compiler = "original"
        /\ compiler # "nvidia"

====
